---- MODULE Spec2Model ----
(***************************************************************************)
(* Model of upload_to_gcs.py: a form (main) that ensures a bucket exists   *)
(* (create_bucket_if_not_exists) and uploads a batch of items to it        *)
(* (upload_files_to_gcs), expanding zip items through a temporary          *)
(* directory.  Paths and file names are sequences of one-character         *)
(* strings so that os.path.join / splitext / relpath are computed.         *)
(***************************************************************************)
EXTENDS Integers, Sequences, FiniteSets, TLC

VARIABLES pc, bucket_name, destination_folder, uploaded_files, remoteHas,
          bucket, idx, tmp, tmpEver, tree, pending, inflight, remote, log

vars == <<pc, bucket_name, destination_folder, uploaded_files, remoteHas,
          bucket, idx, tmp, tmpEver, tree, pending, inflight, remote, log>>

\* ------------------------------------------------------------------ bounds
MaxItems == 2

\* ------------------------------------------------------- path operations
Sep == "/"

NoKey == <<>>

NoBucket == "<none>"

\* str.lower() on the characters the model uses
Lower(c) == CASE c = "Z" -> "z" [] c = "I" -> "i" [] c = "P" -> "p" [] OTHER -> c

LowerStr(s) == [k \in 1..Len(s) |-> Lower(s[k])]

\* str.rfind, 1-based; 0 when the character is absent
RFind(p, c) ==
    LET hits == {k \in 1..Len(p) : p[k] = c}
    IN IF hits = {} THEN 0 ELSE CHOOSE k \in hits : \A j \in hits : j <= k

\* os.path.splitext: the extension starts at the last dot after the last
\* separator, unless only dots precede it in the file name
SplitExt(p) ==
    LET sepIndex == RFind(p, Sep)
        dotIndex == RFind(p, ".")
    IN IF dotIndex > sepIndex /\ \E k \in (sepIndex + 1)..(dotIndex - 1) : p[k] # "."
       THEN <<SubSeq(p, 1, dotIndex - 1), SubSeq(p, dotIndex, Len(p))>>
       ELSE <<p, <<>>>>

\* os.path.join with a broken rule: the separator is always inserted
PathJoinAlwaysSep(a, b) == a \o <<Sep>> \o b

\* os.path.join(a, b)
PathJoin(a, b) ==
    IF Len(b) > 0 /\ b[1] = Sep THEN b
    ELSE IF Len(a) = 0 \/ a[Len(a)] = Sep THEN a \o b
    ELSE a \o <<Sep>> \o b

\* os.path.join(a, b, c)
Join3(a, b, c) == PathJoin(PathJoin(a, b), c)

\* os.path.relpath(path, start) for a path below start
RelPath(path, start) == SubSeq(path, Len(start) + 2, Len(path))

\* name handed out by tempfile.TemporaryDirectory()
TmpDirName == <<"/", "t">>

\* os.walk(top): the (root, file) pairs of the files of the tree below top
WalkEntries(top, t) ==
    { LET k == RFind(rel, Sep)
      IN <<IF k = 0 THEN top ELSE top \o <<Sep>> \o SubSeq(rel, 1, k - 1),
           SubSeq(rel, k + 1, Len(rel))>> : rel \in t }

\* ------------------------------------------------------------------ inputs
ZipName == <<"a", ".", "Z", "I", "P">>

TxtName == <<"f", ".", "t">>

DotName == <<".", "z", "i", "p">>

EntryPaths == {<<"x">>, <<"s", "/", "y">>}

Items ==
    [name : {ZipName}, entries : SUBSET EntryPaths, corrupt : BOOLEAN]
    \cup [name : {TxtName, DotName}, entries : {{}}, corrupt : {FALSE}]

Batches == UNION {[1..n -> Items] : n \in 0..MaxItems}

DestFolders == {<<>>, <<"d">>, <<"d", "/">>}

BucketNames == {"", "b"}

\* ------------------------------------------------------------------ helpers
\* line 29-30: file_extension == '.zip'
IsZip(filename) == LowerStr(SplitExt(filename)[2]) = <<".", "z", "i", "p">>

\* line 27 with a broken iteration order: last item first
OrderReversed(k) == Len(uploaded_files) - k + 1

\* line 27: the k-th iteration of the loop handles the k-th item supplied
Order(k) == k

Cur == uploaded_files[Order(idx)]

Clock == Len(remote) + Len(log)

Call(op, item, key, res) ==
    [op |-> op, item |-> item, key |-> key, res |-> res, seq |-> Clock + 1]

Line(lvl, item, tag, key) ==
    [lvl |-> lvl, item |-> item, tag |-> tag, key |-> key, seq |-> Clock + 1]

SetLastRes(res) == [remote EXCEPT ![Len(remote)].res = res]

\* ------------------------------------------------------------------ Init
Init ==
    /\ pc = "form"
    /\ bucket_name \in BucketNames
    /\ destination_folder \in DestFolders
    /\ uploaded_files \in Batches
    /\ remoteHas \in BOOLEAN
    /\ bucket = NoBucket
    /\ idx = 1
    /\ tmp = {}
    /\ tmpEver = {}
    /\ tree = {}
    /\ pending = {}
    /\ inflight = {}
    /\ remote = <<>>
    /\ log = <<>>

\* ------------------------------------------------------------------ main
\* main with the file-selection check missing
UploadNoFileCheck ==
    /\ pc = "form"
    /\ IF bucket_name = ""
       THEN /\ log' = Append(log, Line("error", 0, "no_bucket_name", NoKey))
            /\ pc' = "end"
       ELSE /\ log' = log
            /\ pc' = "ensure"
    /\ UNCHANGED <<bucket_name, destination_folder, uploaded_files, remoteHas,
                   bucket, idx, tmp, tmpEver, tree, pending, inflight, remote>>

\* main, lines 86-93: the Upload button
Upload ==
    /\ pc = "form"
    /\ IF bucket_name = ""
       THEN /\ log' = Append(log, Line("error", 0, "no_bucket_name", NoKey))
            /\ pc' = "end"
       ELSE IF uploaded_files = <<>>
       THEN /\ log' = Append(log, Line("error", 0, "no_files", NoKey))
            /\ pc' = "end"
       ELSE /\ log' = log
            /\ pc' = "ensure"
    /\ UNCHANGED <<bucket_name, destination_folder, uploaded_files, remoteHas,
                   bucket, idx, tmp, tmpEver, tree, pending, inflight, remote>>

\* ------------------------------------------- create_bucket_if_not_exists
\* bucket.exists() returns True but the bucket is created all the same
CheckExistsPresentCreates ==
    /\ pc = "ensure"
    /\ remoteHas
    /\ remote' = Append(remote, Call("exists", 0, NoKey, "present"))
    /\ pc' = "create"
    /\ UNCHANGED <<bucket_name, destination_folder, uploaded_files, remoteHas,
                   bucket, idx, tmp, tmpEver, tree, pending, inflight, log>>

\* lines 12-14, 17-19: bucket.exists() returns True
CheckExistsPresent ==
    /\ pc = "ensure"
    /\ remoteHas
    /\ remote' = Append(remote, Call("exists", 0, NoKey, "present"))
    /\ log' = Append(log, [Line("info", 0, "already_exists", NoKey) EXCEPT !.seq = Clock + 2])
    /\ bucket' = bucket_name
    /\ pc' = "loop"
    /\ UNCHANGED <<bucket_name, destination_folder, uploaded_files, remoteHas,
                   idx, tmp, tmpEver, tree, pending, inflight>>

\* lines 12-14: bucket.exists() returns False
CheckExistsAbsent ==
    /\ pc = "ensure"
    /\ ~remoteHas
    /\ remote' = Append(remote, Call("exists", 0, NoKey, "absent"))
    /\ pc' = "create"
    /\ UNCHANGED <<bucket_name, destination_folder, uploaded_files, remoteHas,
                   bucket, idx, tmp, tmpEver, tree, pending, inflight, log>>

\* bucket.exists() raises and the failure is swallowed
CheckExistsFailSwallowed ==
    /\ pc = "ensure"
    /\ remote' = Append(remote, Call("exists", 0, NoKey, "fail"))
    /\ bucket' = bucket_name
    /\ pc' = "loop"
    /\ UNCHANGED <<bucket_name, destination_folder, uploaded_files, remoteHas,
                   idx, tmp, tmpEver, tree, pending, inflight, log>>

\* line 14: bucket.exists() raises; nothing catches it (lines 25, 93)
CheckExistsFail ==
    /\ pc = "ensure"
    /\ remote' = Append(remote, Call("exists", 0, NoKey, "fail"))
    /\ pc' = "raised"
    /\ UNCHANGED <<bucket_name, destination_folder, uploaded_files, remoteHas,
                   bucket, idx, tmp, tmpEver, tree, pending, inflight, log>>

\* lines 15-16, 19: create_bucket succeeds
CreateBucketOk ==
    /\ pc = "create"
    /\ remote' = Append(remote, Call("create", 0, NoKey, "ok"))
    /\ remoteHas' = TRUE
    /\ log' = Append(log, [Line("success", 0, "created", NoKey) EXCEPT !.seq = Clock + 2])
    /\ bucket' = bucket_name
    /\ pc' = "loop"
    /\ UNCHANGED <<bucket_name, destination_folder, uploaded_files,
                   idx, tmp, tmpEver, tree, pending, inflight>>

\* line 15: create_bucket raises; nothing catches it (lines 25, 93)
CreateBucketFail ==
    /\ pc = "create"
    /\ remote' = Append(remote, Call("create", 0, NoKey, "fail"))
    /\ pc' = "raised"
    /\ UNCHANGED <<bucket_name, destination_folder, uploaded_files, remoteHas,
                   bucket, idx, tmp, tmpEver, tree, pending, inflight, log>>

\* ------------------------------------------------- upload_files_to_gcs
\* lines 27-36: next item is a zip; temporary directory made, zip saved in it
BeginZip ==
    /\ pc = "loop"
    /\ idx <= Len(uploaded_files)
    /\ IsZip(Cur.name)
    /\ tmp' = tmp \cup {[kind |-> "dir", item |-> Order(idx)]}
    /\ tmpEver' = tmpEver \cup {[kind |-> "dir", item |-> Order(idx)]}
    /\ tree' = {Cur.name}
    /\ pc' = "extract"
    /\ UNCHANGED <<bucket_name, destination_folder, uploaded_files, remoteHas,
                   bucket, idx, pending, inflight, remote, log>>

\* lines 39-43: extractall succeeds; the walk of the directory starts
ExtractOk ==
    /\ pc = "extract"
    /\ ~Cur.corrupt
    /\ tree' = tree \cup Cur.entries
    /\ pending' = WalkEntries(TmpDirName, tree')
    /\ pc' = "walk"
    /\ UNCHANGED <<bucket_name, destination_folder, uploaded_files, remoteHas,
                   bucket, idx, tmp, tmpEver, inflight, remote, log>>

\* extraction failure that is not caught
ExtractFailPropagates ==
    /\ pc = "extract"
    /\ Cur.corrupt
    /\ tmp' = tmp \ {[kind |-> "dir", item |-> Order(idx)]}
    /\ tree' = {}
    /\ pc' = "raised"
    /\ UNCHANGED <<bucket_name, destination_folder, uploaded_files, remoteHas,
                   bucket, idx, tmpEver, pending, inflight, remote, log>>

\* lines 39-40, 52-53, 31: extraction raises, the handler reports it, the
\* temporary directory is removed and the loop goes on
ExtractFail ==
    /\ pc = "extract"
    /\ Cur.corrupt
    /\ log' = Append(log, Line("error", Order(idx), "zip_error", NoKey))
    /\ tmp' = tmp \ {[kind |-> "dir", item |-> Order(idx)]}
    /\ tree' = {}
    /\ idx' = idx + 1
    /\ pc' = "loop"
    /\ UNCHANGED <<bucket_name, destination_folder, uploaded_files, remoteHas,
                   bucket, tmpEver, pending, inflight, remote>>

\* lines 43-50: the walk yields a file; its upload is issued
WalkUploadStart ==
    /\ pc = "walk"
    /\ \E e \in pending :
         LET local_path == PathJoin(e[1], e[2])
             relative_path == RelPath(local_path, TmpDirName)
             blob_path == Join3(destination_folder, SplitExt(Cur.name)[1], relative_path)
         IN /\ remote' = Append(remote, Call("upload", Order(idx), blob_path, "pending"))
            /\ inflight' = inflight \cup {blob_path}
            /\ pending' = pending \ {e}
    /\ pc' = "walk_upload"
    /\ UNCHANGED <<bucket_name, destination_folder, uploaded_files, remoteHas,
                   bucket, idx, tmp, tmpEver, tree, log>>

\* lines 50-51: the upload returns; the success line is written
WalkUploadOk ==
    /\ pc = "walk_upload"
    /\ remote' = SetLastRes("ok")
    /\ log' = Append(log, Line("write", Order(idx), "uploaded", remote[Len(remote)].key))
    /\ inflight' = {}
    /\ pc' = "walk"
    /\ UNCHANGED <<bucket_name, destination_folder, uploaded_files, remoteHas,
                   bucket, idx, tmp, tmpEver, tree, pending>>

\* upload failure inside the walk that is not caught
WalkUploadFailPropagates ==
    /\ pc = "walk_upload"
    /\ remote' = SetLastRes("fail")
    /\ inflight' = {}
    /\ tmp' = tmp \ {[kind |-> "dir", item |-> Order(idx)]}
    /\ tree' = {}
    /\ pending' = {}
    /\ pc' = "raised"
    /\ UNCHANGED <<bucket_name, destination_folder, uploaded_files, remoteHas,
                   bucket, idx, tmpEver, log>>

\* lines 50, 52-53, 31: the upload raises inside the try block; the handler
\* reports it, the temporary directory is removed and the loop goes on
WalkUploadFail ==
    /\ pc = "walk_upload"
    /\ remote' = SetLastRes("fail")
    /\ log' = Append(log, Line("error", Order(idx), "zip_error", NoKey))
    /\ inflight' = {}
    /\ tmp' = tmp \ {[kind |-> "dir", item |-> Order(idx)]}
    /\ tree' = {}
    /\ pending' = {}
    /\ idx' = idx + 1
    /\ pc' = "loop"
    /\ UNCHANGED <<bucket_name, destination_folder, uploaded_files, remoteHas,
                   bucket, tmpEver>>

\* lines 43, 31: the walk is exhausted; the temporary directory is removed
WalkDone ==
    /\ pc = "walk"
    /\ pending = {}
    /\ tmp' = tmp \ {[kind |-> "dir", item |-> Order(idx)]}
    /\ tree' = {}
    /\ idx' = idx + 1
    /\ pc' = "loop"
    /\ UNCHANGED <<bucket_name, destination_folder, uploaded_files, remoteHas,
                   bucket, tmpEver, pending, inflight, remote, log>>

\* lines 27-30, 56-61: next item is not a zip; temporary file written
\* (delete=False) and its upload issued
BeginFile ==
    /\ pc = "loop"
    /\ idx <= Len(uploaded_files)
    /\ ~IsZip(Cur.name)
    /\ tmp' = tmp \cup {[kind |-> "file", item |-> Order(idx)]}
    /\ tmpEver' = tmpEver \cup {[kind |-> "file", item |-> Order(idx)]}
    /\ LET blob_path == PathJoin(destination_folder, Cur.name)
       IN /\ remote' = Append(remote, Call("upload", Order(idx), blob_path, "pending"))
          /\ inflight' = inflight \cup {blob_path}
    /\ pc' = "file_upload"
    /\ UNCHANGED <<bucket_name, destination_folder, uploaded_files, remoteHas,
                   bucket, idx, tree, pending, log>>

\* lines 61-63: the upload returns; success line, os.unlink
FileUploadOk ==
    /\ pc = "file_upload"
    /\ remote' = SetLastRes("ok")
    /\ log' = Append(log, Line("write", Order(idx), "uploaded", remote[Len(remote)].key))
    /\ inflight' = {}
    /\ tmp' = tmp \ {[kind |-> "file", item |-> Order(idx)]}
    /\ idx' = idx + 1
    /\ pc' = "loop"
    /\ UNCHANGED <<bucket_name, destination_folder, uploaded_files, remoteHas,
                   bucket, tmpEver, tree, pending>>

\* upload failure of a plain file that is skipped instead of raised
FileUploadFailSkipped ==
    /\ pc = "file_upload"
    /\ remote' = SetLastRes("fail")
    /\ inflight' = {}
    /\ idx' = idx + 1
    /\ pc' = "loop"
    /\ UNCHANGED <<bucket_name, destination_folder, uploaded_files, remoteHas,
                   bucket, tmp, tmpEver, tree, pending, log>>

\* line 61: the upload raises; the with block closes the file without
\* deleting it (delete=False), lines 62-63 are skipped, nothing catches it
FileUploadFail ==
    /\ pc = "file_upload"
    /\ remote' = SetLastRes("fail")
    /\ inflight' = {}
    /\ pc' = "raised"
    /\ UNCHANGED <<bucket_name, destination_folder, uploaded_files, remoteHas,
                   bucket, idx, tmp, tmpEver, tree, pending, log>>

\* line 27 exhausted, line 94: upload_files_to_gcs returns, main reports
Complete ==
    /\ pc = "loop"
    /\ idx > Len(uploaded_files)
    /\ log' = Append(log, Line("success", 0, "complete", NoKey))
    /\ pc' = "done"
    /\ UNCHANGED <<bucket_name, destination_folder, uploaded_files, remoteHas,
                   bucket, idx, tmp, tmpEver, tree, pending, inflight, remote>>

Next ==
    \/ Upload
    \/ CheckExistsPresent
    \/ CheckExistsAbsent
    \/ CheckExistsFail
    \/ CreateBucketOk
    \/ CreateBucketFail
    \/ BeginZip
    \/ ExtractOk
    \/ ExtractFail
    \/ WalkUploadStart
    \/ WalkUploadOk
    \/ WalkUploadFail
    \/ WalkDone
    \/ BeginFile
    \/ FileUploadOk
    \/ FileUploadFail
    \/ Complete

Spec == Init /\ [][Next]_vars


\* ------------------------------------------------------ observation helpers
UploadsOf(i) == {k \in 1..Len(remote) : remote[k].op = "upload" /\ remote[k].item = i}

ErrorsOf(i) == {k \in 1..Len(log) : log[k].lvl = "error" /\ log[k].item = i}

WritesOf(i) == {k \in 1..Len(log) : log[k].lvl = "write" /\ log[k].item = i}

KeysOf(i) == {remote[k].key : k \in UploadsOf(i)}

WrittenKeysOf(i) == {log[k].key : k \in WritesOf(i)}

Processed(i) == i < idx

ItemIds == 1..Len(uploaded_files)

ZipItem(i) == IsZip(uploaded_files[i].name)

CallsWith(op) == {k \in 1..Len(remote) : remote[k].op = op}

Reported(tag) == \E k \in 1..Len(log) : log[k].tag = tag

Events ==
    {[item |-> remote[k].item, seq |-> remote[k].seq] : k \in 1..Len(remote)}
    \cup {[item |-> log[k].item, seq |-> log[k].seq] : k \in 1..Len(log)}

FailedUploads == {k \in CallsWith("upload") : remote[k].res = "fail"}

Finished == pc \in {"done", "raised", "end"}

\* key the specification expects for file name n below folder d
ExpectedKey(d, n) ==
    IF d = <<>> THEN n
    ELSE IF d[Len(d)] = Sep THEN d \o n
    ELSE d \o <<Sep>> \o n

CleanKey(key) ==
    /\ Len(key) > 0
    /\ key[1] # Sep
    /\ \A k \in 1..(Len(key) - 1) : ~(key[k] = Sep /\ key[k + 1] = Sep)

\* ---------------------------------------------------------------- claims

\* C1: a zip item with N archive files whose extraction and uploads all
\* succeed gets exactly N uploads, one per archive file, each under
\* dest_folder/archive_basename/<relative path>, and no other upload.
C1_ExactlyNUploads ==
    \A i \in ItemIds :
        (ZipItem(i) /\ Processed(i) /\ ErrorsOf(i) = {}) =>
            /\ Cardinality(UploadsOf(i)) = Cardinality(uploaded_files[i].entries)
            /\ KeysOf(i) = {Join3(destination_folder, SplitExt(uploaded_files[i].name)[1], rel) :
                              rel \in uploaded_files[i].entries}

\* C2: once an invocation has ended, normally or with a failure, no
\* temporary file or directory it created still exists.
C2_NoTempRemains == Finished => tmp = {}

\* C3: a zip item whose extraction fails yields exactly one item-level error
\* and no upload, and the failure does not stop the batch: a raise never
\* comes from a zip item, and a normal end has gone through every item.
C3_ExtractFailIsolated ==
    /\ \A i \in ItemIds :
         (ZipItem(i) /\ uploaded_files[i].corrupt /\ Processed(i)) =>
            /\ Cardinality(ErrorsOf(i)) = 1
            /\ UploadsOf(i) = {}
            /\ (pc = "loop" /\ idx = i + 1 /\ i < Len(uploaded_files) => ENABLED (BeginZip \/ BeginFile))
    /\ (pc = "raised" /\ bucket # NoBucket) => ~ZipItem(idx)
    /\ pc = "done" => idx = Len(uploaded_files) + 1

C3_Witness ==
    /\ pc = "done"
    /\ Len(uploaded_files) = 2
    /\ ZipItem(1) /\ uploaded_files[1].corrupt
    /\ uploaded_files[2].name = TxtName
    /\ Cardinality(ErrorsOf(1)) = 1
    /\ WrittenKeysOf(2) = {PathJoin(destination_folder, TxtName)}

\* C4: a failed upload of a non-zip item propagates: the invocation is
\* raised, the failed call is the last remote call, nothing of a later item
\* is uploaded or reported, the failing item has no success line and
\* 'File upload complete.' is not reported.
C4_FileFailurePropagates ==
    \A k \in FailedUploads :
        ~ZipItem(remote[k].item) =>
            /\ pc = "raised"
            /\ k = Len(remote)
            /\ idx = remote[k].item
            /\ WritesOf(remote[k].item) = {}
            /\ \A e \in Events : e.item <= remote[k].item /\ e.seq <= remote[k].seq
            /\ ~Reported("complete")

C4_Witness ==
    \E k \in FailedUploads :
        /\ ~ZipItem(remote[k].item)
        /\ remote[k].item = 1
        /\ Len(uploaded_files) = 2
        /\ pc = "raised"

\* C5: when the existence check or the create call fails the operation
\* aborts: no item is processed, no upload is issued and no temporary file
\* or directory is ever created.
C5_BucketFailureAborts ==
    \A k \in CallsWith("exists") \cup CallsWith("create") :
        remote[k].res = "fail" =>
            /\ pc = "raised"
            /\ k = Len(remote)
            /\ idx = 1
            /\ CallsWith("upload") = {}
            /\ tmpEver = {}
            /\ \A j \in 1..Len(log) : log[j].item = 0 /\ log[j].lvl # "write"

C5_Witness ==
    /\ pc = "raised"
    /\ uploaded_files # <<>>
    /\ \E k \in CallsWith("exists") : remote[k].res = "fail"

\* C6: the bucket is created exactly when the existence check reports it
\* absent (one create call, 'created'), otherwise no create call is made
\* ('already exists'); the handle carries the input name; the check is made
\* once per invocation, before any upload.
C6_CreateIffAbsent ==
    pc \notin {"form", "end", "ensure"} =>
        /\ remote[1].op = "exists"
        /\ Cardinality(CallsWith("exists")) = 1
        /\ Cardinality(CallsWith("create")) =
              (IF remote[1].res = "absent" /\ pc # "create" THEN 1 ELSE 0)
        /\ remote[1].res = "present" =>
              /\ bucket = bucket_name
              /\ log[1].tag = "already_exists" /\ log[1].lvl = "info"
              /\ ~Reported("created")
        /\ (\E k \in CallsWith("create") : remote[k].res = "ok") =>
              /\ bucket = bucket_name
              /\ log[1].tag = "created" /\ log[1].lvl = "success"
              /\ ~Reported("already_exists")
        /\ \A k \in CallsWith("upload") : k > 1 /\ bucket = bucket_name

C6_Witness ==
    /\ remote # <<>>
    /\ remote[1].res = "absent"
    /\ Cardinality(CallsWith("create")) = 1
    /\ Reported("created")
    /\ \E k \in CallsWith("upload") : remote[k].res = "ok"

\* C7: a non-zip item whose upload succeeds gets exactly one upload, under
\* dest_folder/f.ext; with an empty dest_folder the key is f.ext (for a zip
\* item archive_basename/<relative path>) with no leading or doubled
\* separator.
C7_Keys ==
    /\ \A i \in ItemIds :
         (~ZipItem(i) /\ Processed(i)) =>
            /\ Cardinality(UploadsOf(i)) = 1
            /\ KeysOf(i) = {ExpectedKey(destination_folder, uploaded_files[i].name)}
            /\ WrittenKeysOf(i) = KeysOf(i)
    /\ destination_folder = <<>> =>
         \A k \in CallsWith("upload") :
            /\ CleanKey(remote[k].key)
            /\ ~ZipItem(remote[k].item) => remote[k].key = uploaded_files[remote[k].item].name
            /\ ZipItem(remote[k].item) =>
                 \E rel \in uploaded_files[remote[k].item].entries \cup {uploaded_files[remote[k].item].name} :
                    remote[k].key = SplitExt(uploaded_files[remote[k].item].name)[1] \o <<Sep>> \o rel

C7_Witness ==
    /\ destination_folder = <<>>
    /\ Len(uploaded_files) = 2
    /\ ~ZipItem(1) /\ Processed(1)
    /\ WrittenKeysOf(1) = {uploaded_files[1].name}
    /\ ZipItem(2)
    /\ <<"a", "/", "s", "/", "y">> \in WrittenKeysOf(2)

\* C8: items are handled strictly in the order supplied: everything that
\* belongs to item i (uploads, status and error lines) happens before
\* anything that belongs to a later item j, and at most one upload is in
\* progress at any time.
C8_Sequential ==
    /\ \A e1, e2 \in Events :
         (e1.item > 0 /\ e1.item < e2.item) => e1.seq < e2.seq
    /\ Cardinality(inflight) <= 1
    /\ Cardinality({k \in CallsWith("upload") : remote[k].res = "pending"}) = Cardinality(inflight)

C8_Witness ==
    /\ pc = "done"
    /\ Len(uploaded_files) = 2
    /\ WritesOf(1) # {}
    /\ WritesOf(2) # {}

\* C9 as stated: a failed upload during an archive's walk is not recovered
\* locally; it propagates and no later item is processed.
C9_WalkFailurePropagates ==
    \A k \in FailedUploads :
        ZipItem(remote[k].item) =>
            /\ pc = "raised"
            /\ \A e \in Events : e.item <= remote[k].item

\* C9 amended: a failed upload during an archive's walk is isolated per item
\* like a failed extraction: no further file of that archive is uploaded,
\* exactly one item-level error is reported for it, its temporary directory
\* is removed, and the batch goes on with the next item; only a non-zip
\* upload failure or a bucket failure propagates.
C9_WalkFailureIsolated ==
    /\ \A k \in FailedUploads :
         ZipItem(remote[k].item) =>
            /\ Processed(remote[k].item)
            /\ \A j \in UploadsOf(remote[k].item) : j <= k
            /\ Cardinality(ErrorsOf(remote[k].item)) = 1
            /\ [kind |-> "dir", item |-> remote[k].item] \notin tmp
            /\ (pc = "loop" /\ idx = remote[k].item + 1 /\ idx <= Len(uploaded_files)
                  => ENABLED (BeginZip \/ BeginFile))
    /\ (pc = "raised" /\ bucket # NoBucket) => ~ZipItem(idx)
    /\ pc = "done" => idx = Len(uploaded_files) + 1

C9_Witness ==
    /\ Len(uploaded_files) = 2
    /\ \E k \in FailedUploads : remote[k].item = 1 /\ ZipItem(1)
    /\ WritesOf(2) # {}
    /\ pc = "done"

\* C10: 'File upload complete.' is reported only when bucket name and
\* selection were non-empty, the bucket was ensured and every item reached an
\* outcome (non-zip: uploaded; zip: all walked files uploaded, or exactly one
\* item-level error); with an empty bucket name or selection the Upload
\* action reports an error and performs no remote operation.
C10_CompleteMeansAllHandled ==
    /\ Reported("complete") =>
         /\ bucket_name # ""
         /\ uploaded_files # <<>>
         /\ bucket = bucket_name
         /\ \E k \in CallsWith("exists") \cup CallsWith("create") :
               remote[k].res \in {"present", "ok"}
         /\ \A i \in ItemIds :
              /\ ~ZipItem(i) => Cardinality(WritesOf(i)) = 1
              /\ ZipItem(i) =>
                   \/ /\ ErrorsOf(i) = {}
                      /\ Cardinality(WritesOf(i)) = Cardinality(uploaded_files[i].entries) + 1
                      /\ \A k \in UploadsOf(i) : remote[k].res = "ok"
                   \/ Cardinality(ErrorsOf(i)) = 1
    /\ ((bucket_name = "" \/ uploaded_files = <<>>) /\ pc # "form") =>
         /\ pc = "end"
         /\ remote = <<>>
         /\ Len(log) = 1 /\ log[1].lvl = "error"
         /\ log[1].tag = (IF bucket_name = "" THEN "no_bucket_name" ELSE "no_files")

C10_Witness ==
    /\ Reported("complete")
    /\ Len(uploaded_files) = 2
    /\ ZipItem(1) /\ ErrorsOf(1) = {} /\ uploaded_files[1].entries = EntryPaths
    /\ ~ZipItem(2)

====
